---- MODULE Spec2Model ----
(***************************************************************************)
(* Model of drivers/scsi/ufs/ufshcd-pltfrm.c: the device-tree parsers of   *)
(* the UFS platform glue driver and the probe routine ufshcd_pltfrm_init.  *)
(*                                                                         *)
(* The device description (desc) is fixed for a probe.  The results of     *)
(* calls into other kernel subsystems (ioremap, irq lookup, reset, pinctrl,*)
(* extcon, memory allocation, ufshcd_init) are chosen by the environment   *)
(* when the call is made.                                                  *)
(***************************************************************************)
EXTENDS Integers, Sequences, FiniteSets, TLC

VARIABLES
    desc,       \* the device-tree node of the platform device
    pc,         \* position inside ufshcd_pltfrm_init
    hba,        \* the fields of struct ufs_hba this file writes
    host,       \* "none" | "allocated" | "deallocated"
    mmio,       \* "none" | "mapped": result of devm_ioremap_resource
    err,        \* the local variable err of ufshcd_pltfrm_init
    calls,      \* log of the calls made so far, in order, with their results
    acquired,   \* resources acquired for the adapter and not yet released
    oom,        \* number of memory allocations that have failed so far
    drvdata,    \* TRUE once platform_set_drvdata(pdev, hba) has run
    pm_enabled, \* TRUE once pm_runtime_enable(&pdev->dev) has run
    returned    \* <<>> while running, <<v>> once ufshcd_pltfrm_init returned v

vars == <<desc, pc, hba, host, mmio, err, calls, acquired, oom, drvdata,
          pm_enabled, returned>>

---------------------------------------------------------------------------
(* Bounds of the model *)

\* largest number of strings in "clock-names"
MaxClocks == 2
\* largest number of memory allocations that fail during one probe
MaxOom == 1

---------------------------------------------------------------------------
(* errno values and constants of the headers the file includes.  The       *)
(* regulator and reference-clock constants have the values of ufs.h; the   *)
(* model only relies on the voltage ranges being different from each other *)

ENOENT == 2
ENOMEM == 12
ENODEV == 19
EINVAL == 22
ENODATA == 61
EOVERFLOW == 75
EILSEQ == 84
EPROBE_DEFER == 517

UFSHCD_DEFAULT_LANES_PER_DIRECTION == 2

UFS_VREG_LPM_LOAD_UA == 1000
UFS_VREG_VCC_MIN_UV == 2700000
UFS_VREG_VCC_MAX_UV == 3600000
UFS_VREG_VCC_1P8_MIN_UV == 1700000
UFS_VREG_VCC_1P8_MAX_UV == 1950000
UFS_VREG_VCCQ_MIN_UV == 1100000
UFS_VREG_VCCQ_MAX_UV == 1300000
UFS_VREG_VCCQ2_MIN_UV == 1650000
UFS_VREG_VCCQ2_MAX_UV == 1950000

REF_CLK_FREQ_26_MHZ == 1
REF_CLK_FREQ_52_MHZ == 3

\* sizeof(u32), sizeof(__be32)
SizeofU32 == 4

\* a NULL char pointer (the result of a failed kstrdup)
NULLSTR == "<NULL>"

\* pointers: <<>> is NULL, <<x>> points to x
NULLP == <<>>
Ptr(x) == <<x>>

---------------------------------------------------------------------------
(* Device-tree properties and the of_* accessors                           *)
(* A property is [present, len, cells]: len is its length in bytes and     *)
(* cells the whole big-endian 32-bit cells it holds (len \div 4 of them).  *)

AbsentProp == [present |-> FALSE, len |-> 0, cells |-> <<>>]
CellProp(vals, rem) ==
    [present |-> TRUE, len |-> SizeofU32 * Len(vals) + rem, cells |-> vals]
U32Prop(v) == CellProp(<<v>>, 0)

\* of_property_read_bool: the property exists
of_property_read_bool(p) == p.present

\* of_find_property_value_of_size as used by the u32 readers
of_find_property_value_of_size(p, min) ==
    IF ~p.present THEN -EINVAL
    ELSE IF p.len = 0 THEN -ENODATA
    ELSE IF p.len < min THEN -EOVERFLOW
    ELSE 0

\* of_property_read_u32_array(np, name, out, sz): out is written on success only
of_property_read_u32_array(p, sz) ==
    LET r == of_find_property_value_of_size(p, sz * SizeofU32)
    IN [ret |-> r, vals |-> IF r = 0 THEN SubSeq(p.cells, 1, sz) ELSE <<>>]

\* of_property_read_u32(np, name, &out)
of_property_read_u32(p) ==
    LET r == of_property_read_u32_array(p, 1)
    IN [ret |-> r.ret, val |-> IF r.ret = 0 THEN r.vals[1] ELSE 0]

\* A string-list property is [state, strs], state one of
\* "absent", "novalue", "unterminated", "ok".
AbsentStrings == [state |-> "absent", strs |-> <<>>]

of_property_count_strings(p) ==
    CASE p.state = "absent" -> -EINVAL
      [] p.state = "novalue" -> -ENODATA
      [] p.state = "unterminated" -> -EILSEQ
      [] OTHER -> Len(p.strs)

of_property_read_string_index(p, i) ==
    CASE p.state = "absent" -> [ret |-> -EINVAL, str |-> NULLSTR]
      [] p.state = "novalue" -> [ret |-> -ENODATA, str |-> NULLSTR]
      [] p.state = "unterminated" -> [ret |-> -EILSEQ, str |-> NULLSTR]
      [] i + 1 > Len(p.strs) -> [ret |-> -ENODATA, str |-> NULLSTR]
      [] OTHER -> [ret |-> 0, str |-> p.strs[i + 1]]

---------------------------------------------------------------------------
(* An entry of the call log: the function, its distinguishing argument     *)
(* ("" when there is none) and what it returned (0 for a void function)    *)

Call(fn, arg, ret) == [fn |-> fn, arg |-> arg, ret |-> ret]

---------------------------------------------------------------------------
(* Memory allocation.  f is the ordinal, within the running parser, of the *)
(* allocation that fails (0: none); n is the ordinal of this allocation.   *)

AllocFails(f, n) == f # 0 /\ f = n

---------------------------------------------------------------------------
(* ufshcd_parse_clock_info *)

\* the zero-filled array devm_kzalloc returns
Zeroed(sz) == [k \in 1..sz |-> 0]

\* list_add: the new entry goes to the head of the list
list_add(list, clki) == <<clki>> \o list

\* list_add_tail(&clki->list, &hba->clk_list_head)
list_add_tail(list, clki) == Append(list, clki)

\* the body of the for loop: i runs over 0, 2, 4, ... below sz;
\* the allocations of iteration i have ordinals 2 + i (clki) and 3 + i (name)
RECURSIVE clock_loop(_, _, _, _, _, _, _, _)
clock_loop(np, clkfreq, sz, i, f, ret, list, res) ==
    IF ~(i < sz) THEN [ret |-> ret, list |-> list, res |-> res]
    ELSE LET s == of_property_read_string_index(np.clock_names, i \div 2)
         IN IF s.ret # 0
            THEN [ret |-> s.ret, list |-> list, res |-> res]
            ELSE IF AllocFails(f, 2 + i)
            THEN [ret |-> -ENOMEM, list |-> list, res |-> res]
            ELSE LET nameOk == ~AllocFails(f, 3 + i)
                     clki == [name |-> IF nameOk THEN s.str ELSE NULLSTR,
                              min_freq |-> clkfreq[i + 1],
                              max_freq |-> clkfreq[i + 2]]
                 IN clock_loop(np, clkfreq, sz, i + 2, f, s.ret,
                               list_add_tail(list, clki),
                               res \o <<"clki">>
                                   \o (IF nameOk THEN <<"clk_name">> ELSE <<>>))

\* a check that only rejects a table that is too short
TableTooShort(sz, cnt) == sz < 2 * cnt

\* the test "sz != 2 * cnt" on the number of cells of "freq-table-hz"
LenMismatch(sz, cnt) == sz # 2 * cnt

\* returns the status, the clock list and the resources acquired
ufshcd_parse_clock_info(np, list, f) ==
    LET cnt == of_property_count_strings(np.clock_names)
        ret0 == IF cnt = 0 \/ cnt = -EINVAL THEN 0
                ELSE IF cnt < 0 THEN cnt
                ELSE 0
        len == np.freq_table.len
        sz == len \div SizeofU32
        rd == of_property_read_u32_array(np.freq_table, sz)
        clkfreq == IF rd.ret = 0 THEN rd.vals ELSE Zeroed(sz)
    IN  IF ~np.present THEN [ret |-> 0, list |-> list, res |-> <<>>]
        ELSE IF cnt <= 0 THEN [ret |-> ret0, list |-> list, res |-> <<>>]
        ELSE IF ~np.freq_table.present
            THEN [ret |-> ret0, list |-> list, res |-> <<>>]
        ELSE IF len <= 0 THEN [ret |-> ret0, list |-> list, res |-> <<>>]
        ELSE IF LenMismatch(sz, cnt)
            THEN [ret |-> -EINVAL, list |-> list, res |-> <<>>]
        ELSE IF AllocFails(f, 1)
            THEN [ret |-> -ENOMEM, list |-> list, res |-> <<>>]
        ELSE IF rd.ret # 0 /\ rd.ret # -EINVAL
            THEN [ret |-> rd.ret, list |-> list, res |-> <<"clkfreq">>]
        ELSE clock_loop(np, clkfreq, sz, 0, f, rd.ret, list, <<"clkfreq">>)

---------------------------------------------------------------------------
(* ufshcd_populate_vreg and ufshcd_parse_regulator_info *)

Roles == <<"vdd-hba", "vcc", "vccq", "vccq2">>
RoleSet == {Roles[i] : i \in 1..Len(Roles)}

\* a struct ufs_vreg as devm_kzalloc returns it
ZeroVreg ==
    [name |-> NULLSTR, max_uA |-> 0, min_uA |-> 0, min_uV |-> 0, max_uV |-> 0,
     low_voltage_sup |-> FALSE]

\* the voltage range of a two-cell "<role>-voltage-level" property, or the
\* given default when the property is missing or has another length
VoltageLevel(prop, defMin, defMax) ==
    IF ~prop.present \/ prop.len # 2 * SizeofU32
    THEN [min_uV |-> defMin, max_uV |-> defMax]
    ELSE [min_uV |-> prop.cells[1], max_uV |-> prop.cells[2]]

\* the vcc branch with the explicit level tried before the 1.8V mode
VregVoltageLevelFirst(np, name, vreg) ==
    IF name = "vcc" THEN
        IF np.vcc_voltage_level.present
               /\ np.vcc_voltage_level.len = 2 * SizeofU32
        THEN [vreg EXCEPT !.min_uV = np.vcc_voltage_level.cells[1],
                          !.max_uV = np.vcc_voltage_level.cells[2]]
        ELSE IF of_property_read_bool(np.vcc_supply_1p8)
        THEN [vreg EXCEPT !.min_uV = UFS_VREG_VCC_1P8_MIN_UV,
                          !.max_uV = UFS_VREG_VCC_1P8_MAX_UV]
        ELSE [vreg EXCEPT !.min_uV = UFS_VREG_VCC_MIN_UV,
                          !.max_uV = UFS_VREG_VCC_MAX_UV]
    ELSE vreg

\* the branch on the regulator's name that fills min_uV, max_uV and
\* low_voltage_sup
VregVoltage(np, name, vreg) ==
    IF name = "vcc" THEN
        IF of_property_read_bool(np.vcc_supply_1p8)
        THEN [vreg EXCEPT !.min_uV = UFS_VREG_VCC_1P8_MIN_UV,
                          !.max_uV = UFS_VREG_VCC_1P8_MAX_UV]
        ELSE LET lvl == VoltageLevel(np.vcc_voltage_level,
                                     UFS_VREG_VCC_MIN_UV, UFS_VREG_VCC_MAX_UV)
             IN [vreg EXCEPT !.min_uV = lvl.min_uV,
                             !.max_uV = lvl.max_uV,
                             !.low_voltage_sup =
                                 of_property_read_bool(np.vcc_low_voltage_sup)]
    ELSE IF name = "vccq" THEN
        [vreg EXCEPT !.min_uV = UFS_VREG_VCCQ_MIN_UV,
                     !.max_uV = UFS_VREG_VCCQ_MAX_UV]
    ELSE IF name = "vccq2" THEN
        LET lvl == VoltageLevel(np.vccq2_voltage_level,
                                UFS_VREG_VCCQ2_MIN_UV, UFS_VREG_VCCQ2_MAX_UV)
        IN [vreg EXCEPT !.min_uV = lvl.min_uV, !.max_uV = lvl.max_uV]
    ELSE vreg

\* the result of reading "<role>-max-microamp" never checked
MaxMicroampUnchecked(ret) == FALSE

\* the test "if (ret)" after reading "<role>-max-microamp"
MaxMicroampMissing(ret) == ret # 0

\* ufshcd_populate_vreg(dev, name, &out): out is the pointer before the call,
\* k the number of allocations the running parser made before it.
\* Returns the status, the pointer after the call, the resources acquired
\* and the number of allocations made so far.
ufshcd_populate_vreg(np, name, out, f, k) ==
    LET p == np.vreg[name]
        nameOk == ~AllocFails(f, k + 2)
        v1 == [ZeroVreg EXCEPT !.name = IF nameOk THEN name ELSE NULLSTR]
        res1 == <<"vreg">> \o (IF nameOk THEN <<"vreg_name">> ELSE <<>>)
        rmax == of_property_read_u32(p.max_microamp)
        rmin == of_property_read_u32(p.min_microamp)
        v2 == [v1 EXCEPT !.max_uA = rmax.val,
                         !.min_uA = IF rmin.ret # 0 THEN UFS_VREG_LPM_LOAD_UA
                                    ELSE rmin.val]
        v3 == VregVoltage(np, name, v2)
    IN  IF ~np.present THEN [ret |-> 0, out |-> NULLP, res |-> <<>>, n |-> k]
        ELSE IF ~p.supply
            THEN [ret |-> 0, out |-> NULLP, res |-> <<>>, n |-> k]
        ELSE IF AllocFails(f, k + 1)
            THEN [ret |-> -ENOMEM, out |-> out, res |-> <<>>, n |-> k + 1]
        ELSE IF of_property_read_bool(p.fixed_regulator)
            THEN [ret |-> 0, out |-> Ptr(v1), res |-> res1, n |-> k + 2]
        ELSE IF MaxMicroampMissing(rmax.ret)
            THEN [ret |-> rmax.ret, out |-> out, res |-> res1, n |-> k + 2]
        ELSE [ret |-> 0, out |-> Ptr(v3), res |-> res1, n |-> k + 2]

\* the four calls of ufshcd_parse_regulator_info, stopping at the first error
\* log is the list of the calls made, each with its result
RECURSIVE parse_regulator_from(_, _, _, _, _, _, _)
parse_regulator_from(np, i, info, f, k, res, log) ==
    IF i > Len(Roles) THEN [ret |-> 0, info |-> info, res |-> res, log |-> log]
    ELSE LET r == ufshcd_populate_vreg(np, Roles[i], info[Roles[i]], f, k)
             info1 == [info EXCEPT ![Roles[i]] = r.out]
             log1 == Append(log, Call("ufshcd_populate_vreg", Roles[i], r.ret))
         IN IF r.ret # 0
            THEN [ret |-> r.ret, info |-> info1, res |-> res \o r.res,
                  log |-> log1]
            ELSE parse_regulator_from(np, i + 1, info1, f, r.n, res \o r.res,
                                      log1)

ufshcd_parse_regulator_info(np, info, f) ==
    parse_regulator_from(np, 1, info, f, 0, <<>>, <<>>)

---------------------------------------------------------------------------
(* The scalar parsers *)

\* of_property_read_u32 on dev->of_node, which may be NULL
NodeReadU32(np, p) ==
    IF np.present THEN of_property_read_u32(p) ELSE [ret |-> -EINVAL, val |-> 0]

\* the common shape "read the property, on error store the default"
ReadOr(np, p, def) ==
    LET r == of_property_read_u32(p) IN IF r.ret # 0 THEN def ELSE r.val

ufshcd_parse_pm_levels(np, h) ==
    IF np.present
    THEN [h EXCEPT !.rpm_lvl = ReadOr(np, np.rpm_level, -1),
                   !.spm_lvl = ReadOr(np, np.spm_level, -1)]
    ELSE h

ufshcd_parse_gear_limits(np, h) ==
    IF ~np.present THEN h
    ELSE [h EXCEPT !.limit_tx_hs_gear = ReadOr(np, np.limit_tx_hs_gear, -1),
                   !.limit_rx_hs_gear = ReadOr(np, np.limit_rx_hs_gear, -1),
                   !.limit_tx_pwm_gear = ReadOr(np, np.limit_tx_pwm_gear, -1),
                   !.limit_rx_pwm_gear = ReadOr(np, np.limit_rx_pwm_gear, -1)]

ufshcd_parse_cmd_timeout(np, h) ==
    IF ~np.present THEN h
    ELSE [h EXCEPT !.scsi_cmd_timeout = ReadOr(np, np.scsi_cmd_timeout, 0)]

ufshcd_parse_force_g4_flag(np, h) ==
    [h EXCEPT !.force_g4 = np.present /\ of_property_read_bool(np.force_g4)]

ufshcd_parse_dev_ref_clk_freq(np, h) ==
    IF ~np.present THEN h
    ELSE LET r == of_property_read_u32(np.dev_ref_clk_freq)
         IN [h EXCEPT !.dev_ref_clk_freq =
                 IF r.ret # 0 \/ r.val < 0 \/ r.val > REF_CLK_FREQ_52_MHZ
                 THEN REF_CLK_FREQ_26_MHZ ELSE r.val]

ufshcd_init_lanes_per_dir(np, h) ==
    LET r == NodeReadU32(np, np.lanes_per_direction)
    IN [h EXCEPT !.lanes_per_direction =
            IF r.ret # 0 THEN UFSHCD_DEFAULT_LANES_PER_DIRECTION ELSE r.val]

---------------------------------------------------------------------------
(* The handle parsers: r is the result of the lookup, 0 for a valid handle *)
(* and a negative errno for an ERR_PTR                                     *)

\* the error of the lookup recorded but not returned
parse_reset_info_tolerant(h, r) ==
    IF r # 0 THEN [ret |-> 0, hba |-> [h EXCEPT !.core_reset = NULLP]]
    ELSE [ret |-> 0, hba |-> [h EXCEPT !.core_reset = Ptr("core_reset")]]

ufshcd_parse_reset_info(h, r) ==
    IF r # 0 THEN [ret |-> r, hba |-> [h EXCEPT !.core_reset = NULLP]]
    ELSE [ret |-> 0, hba |-> [h EXCEPT !.core_reset = Ptr("core_reset")]]

ufshcd_parse_pinctrl_info(h, r) ==
    IF r # 0 THEN [ret |-> r, hba |-> [h EXCEPT !.pctrl = NULLP]]
    ELSE [ret |-> 0, hba |-> [h EXCEPT !.pctrl = Ptr("pinctrl")]]

\* every lookup error returned, -ENODEV included
parse_extcon_info_strict(h, r) ==
    IF r # 0 THEN [ret |-> r, hba |-> h]
    ELSE [ret |-> 0, hba |-> [h EXCEPT !.extcon = Ptr("extcon")]]

ufshcd_parse_extcon_info(h, r) ==
    IF r # 0 /\ r # -ENODEV THEN [ret |-> r, hba |-> h]
    ELSE IF r = 0 THEN [ret |-> 0, hba |-> [h EXCEPT !.extcon = Ptr("extcon")]]
    ELSE [ret |-> 0, hba |-> h]

---------------------------------------------------------------------------
(* Device descriptions *)

\* a node with no property at all
BaseNode ==
    [present |-> TRUE,
     clock_names |-> AbsentStrings,
     freq_table |-> AbsentProp,
     vreg |-> [r \in RoleSet |->
                  [supply |-> FALSE, fixed_regulator |-> AbsentProp,
                   max_microamp |-> AbsentProp, min_microamp |-> AbsentProp]],
     vcc_supply_1p8 |-> AbsentProp,
     vcc_voltage_level |-> AbsentProp,
     vcc_low_voltage_sup |-> AbsentProp,
     vccq2_voltage_level |-> AbsentProp,
     rpm_level |-> AbsentProp,
     spm_level |-> AbsentProp,
     limit_tx_hs_gear |-> AbsentProp,
     limit_rx_hs_gear |-> AbsentProp,
     limit_tx_pwm_gear |-> AbsentProp,
     limit_rx_pwm_gear |-> AbsentProp,
     scsi_cmd_timeout |-> AbsentProp,
     force_g4 |-> AbsentProp,
     dev_ref_clk_freq |-> AbsentProp,
     lanes_per_direction |-> AbsentProp]

\* dev->of_node == NULL
NoNode == [BaseNode EXCEPT !.present = FALSE]

\* an empty (boolean) property
FlagProp == CellProp(<<>>, 0)
FlagProps == {AbsentProp, FlagProp}

ClockNameList == <<"core_clk", "ref_clk", "iface_clk", "bus_clk">>

\* "clock-names": missing, malformed, or the first n names, n <= m
ClockNamesProps(m) ==
    {[state |-> st, strs |-> <<>>] : st \in {"absent", "novalue", "unterminated"}}
    \cup {[state |-> "ok", strs |-> SubSeq(ClockNameList, 1, n)] : n \in 0..m}

\* "freq-table-hz": missing, or up to 2m+1 cells followed by rem stray bytes
FreqTables(m, vals, rems) ==
    {AbsentProp}
    \cup {CellProp(s, rem) :
            s \in UNION {[1..l -> vals] : l \in 0..(2 * m + 1)}, rem \in rems}

\* the properties of one regulator role
NoSupply ==
    [supply |-> FALSE, fixed_regulator |-> AbsentProp,
     max_microamp |-> AbsentProp, min_microamp |-> AbsentProp]
TypicalSupply == [NoSupply EXCEPT !.supply = TRUE, !.max_microamp = U32Prop(500000)]
SupplyNoMax == [NoSupply EXCEPT !.supply = TRUE]
PlainCfgs == {NoSupply, TypicalSupply, SupplyNoMax}
AllCfgs ==
    [supply : BOOLEAN, fixed_regulator : FlagProps,
     max_microamp : {AbsentProp, U32Prop(500000)},
     min_microamp : {AbsentProp, U32Prop(2000)}]

\* "<role>-voltage-level": missing, two cells, or a wrong number of cells
VoltageLevels ==
    {AbsentProp, CellProp(<<2950000, 3300000>>, 0), CellProp(<<2950000>>, 0),
     CellProp(<<2950000, 3300000, 3600000>>, 0),
     CellProp(<<2950000, 3300000>>, 1), FlagProp}

\* the scalar tuning properties: none, all valid, or all set with a
\* reference clock value outside the enumeration
WithScalars(n, refclk) ==
    [n EXCEPT !.rpm_level = U32Prop(3), !.spm_level = U32Prop(5),
              !.limit_tx_hs_gear = U32Prop(3), !.limit_rx_hs_gear = U32Prop(3),
              !.limit_tx_pwm_gear = U32Prop(4), !.limit_rx_pwm_gear = U32Prop(4),
              !.scsi_cmd_timeout = U32Prop(30), !.force_g4 = FlagProp,
              !.dev_ref_clk_freq = U32Prop(refclk),
              !.lanes_per_direction = U32Prop(1)]
ScalarVariants(n) == {n, WithScalars(n, 0), WithScalars(n, 999)}

\* descriptions for the whole probe: every combination of clock and
\* regulator properties, and a node with each variant of the scalar ones
\* the descriptions without scalar properties
ProbeDescs ==
    {[BaseNode EXCEPT !.clock_names = cn, !.freq_table = ft, !.vreg = vr] :
        cn \in ClockNamesProps(MaxClocks),
        ft \in FreqTables(MaxClocks, {100000}, {0}),
        vr \in [RoleSet -> PlainCfgs]}

\* descriptions for the clock parser
ClockDescs ==
    {NoNode} \cup
    {[BaseNode EXCEPT !.clock_names = cn, !.freq_table = ft] :
        cn \in ClockNamesProps(MaxClocks),
        ft \in FreqTables(MaxClocks, {100000, 200000}, {0, 3})}

\* descriptions for the regulator parser: one role (the focus) takes every
\* combination of its properties, the others a plain one
OnlyFor(focus, role, props) == IF focus = role THEN props ELSE {AbsentProp}
FocusDescs(focus) ==
    {[BaseNode EXCEPT !.vreg = [g EXCEPT ![focus] = c],
                      !.vcc_supply_1p8 = p18,
                      !.vcc_voltage_level = lvl,
                      !.vcc_low_voltage_sup = low,
                      !.vccq2_voltage_level = lvl2] :
        g \in [RoleSet -> PlainCfgs], c \in AllCfgs,
        p18 \in OnlyFor(focus, "vcc", FlagProps),
        lvl \in OnlyFor(focus, "vcc", VoltageLevels),
        low \in OnlyFor(focus, "vcc", FlagProps),
        lvl2 \in OnlyFor(focus, "vccq2", VoltageLevels)}

---------------------------------------------------------------------------
(* The probe routine ufshcd_pltfrm_init, one action per call it makes *)

\* the adapter as ufshcd_alloc_host returns it
ufshcd_alloc_host ==
    [var |-> "none",
     clk_list_head |-> <<>>,
     vreg_info |-> [r \in RoleSet |-> NULLP],
     core_reset |-> NULLP, pctrl |-> NULLP, extcon |-> NULLP,
     rpm_lvl |-> 0, spm_lvl |-> 0,
     limit_tx_hs_gear |-> 0, limit_rx_hs_gear |-> 0,
     limit_tx_pwm_gear |-> 0, limit_rx_pwm_gear |-> 0,
     scsi_cmd_timeout |-> 0, force_g4 |-> FALSE,
     dev_ref_clk_freq |-> 0, lanes_per_direction |-> 0]

\* results the environment can give
IoremapResults == {0, -EINVAL, -ENOMEM}
IrqResults == {-EPROBE_DEFER, -EINVAL, 37}
AllocHostResults == {0, -ENOMEM}
ResetResults == {0, -ENOENT, -EPROBE_DEFER}
PinctrlResults == {0, -ENODEV}
ExtconResults == {0, -ENODEV, -EINVAL, -EPROBE_DEFER}
InitResults == {0, -EINVAL}

\* the allocation that fails in a parser making n allocations: none, or one
\* of them while the bound on failures allows it
FailChoices(n) == {0} \cup (IF oom < MaxOom THEN 1..n ELSE {})
OomAfter(f) == IF f # 0 THEN oom + 1 ELSE oom

InitAt(d) ==
    /\ desc = d
    /\ pc = "map_resource"
    /\ hba = ufshcd_alloc_host
    /\ host = "none"
    /\ mmio = "none"
    /\ err = 0        \* not initialised in the code; written before it is read
    /\ calls = <<>>
    /\ acquired = <<>>
    /\ oom = 0
    /\ drvdata = FALSE
    /\ pm_enabled = FALSE
    /\ returned = <<>>

Init ==
    \/ \E d \in {NoNode} \cup ScalarVariants(BaseNode) : InitAt(d)
    \/ \E d \in ProbeDescs : InitAt(d)

MapResource ==
    /\ pc = "map_resource"
    /\ \E r \in IoremapResults :
        /\ calls' = Append(calls, Call("devm_ioremap_resource", "", r))
        /\ IF r # 0
           THEN err' = r /\ pc' = "out" /\ mmio' = mmio
           ELSE err' = err /\ pc' = "get_irq" /\ mmio' = "mapped"
    /\ UNCHANGED <<desc, hba, host, acquired, oom, drvdata, pm_enabled, returned>>

GetIrq ==
    /\ pc = "get_irq"
    /\ \E irq \in IrqResults :
        /\ calls' = Append(calls, Call("platform_get_irq", "", irq))
        /\ IF irq < 0
           THEN err' = -ENODEV /\ pc' = "out"
           ELSE err' = err /\ pc' = "alloc_host"
    /\ UNCHANGED <<desc, hba, host, mmio, acquired, oom, drvdata, pm_enabled,
                   returned>>

AllocHost ==
    /\ pc = "alloc_host"
    /\ \E r \in AllocHostResults :
        /\ calls' = Append(calls, Call("ufshcd_alloc_host", "", r))
        /\ err' = r
        /\ IF r # 0
           THEN pc' = "out" /\ host' = host /\ hba' = hba
           ELSE /\ pc' = "parse_clock_info"
                /\ host' = "allocated"
                /\ hba' = [ufshcd_alloc_host EXCEPT !.var = "var"]
    /\ UNCHANGED <<desc, mmio, acquired, oom, drvdata, pm_enabled, returned>>

\* the clock parser's error returned without passing through dealloc_host
ParseClockInfoNoDealloc ==
    /\ pc = "parse_clock_info"
    /\ \E f \in FailChoices(
                  Len(ufshcd_parse_clock_info(desc, hba.clk_list_head, 0).res)) :
        LET r == ufshcd_parse_clock_info(desc, hba.clk_list_head, f)
        IN /\ calls' = Append(calls, Call("ufshcd_parse_clock_info", "", r.ret))
           /\ hba' = [hba EXCEPT !.clk_list_head = r.list]
           /\ acquired' = acquired \o r.res
           /\ oom' = OomAfter(f)
           /\ err' = r.ret
           /\ pc' = IF r.ret # 0 THEN "out" ELSE "parse_regulator_info"
    /\ UNCHANGED <<desc, host, mmio, drvdata, pm_enabled, returned>>

ParseClockInfo ==
    /\ pc = "parse_clock_info"
    /\ \E f \in FailChoices(
                  Len(ufshcd_parse_clock_info(desc, hba.clk_list_head, 0).res)) :
        LET r == ufshcd_parse_clock_info(desc, hba.clk_list_head, f)
        IN /\ calls' = Append(calls, Call("ufshcd_parse_clock_info", "", r.ret))
           /\ hba' = [hba EXCEPT !.clk_list_head = r.list]
           /\ acquired' = acquired \o r.res
           /\ oom' = OomAfter(f)
           /\ err' = r.ret
           /\ pc' = IF r.ret # 0 THEN "dealloc_host" ELSE "parse_regulator_info"
    /\ UNCHANGED <<desc, host, mmio, drvdata, pm_enabled, returned>>

ParseRegulatorInfo ==
    /\ pc = "parse_regulator_info"
    /\ \E f \in FailChoices(
                  Len(ufshcd_parse_regulator_info(desc, hba.vreg_info, 0).res)) :
        LET r == ufshcd_parse_regulator_info(desc, hba.vreg_info, f)
        IN /\ calls' = calls \o r.log
                        \o <<Call("ufshcd_parse_regulator_info", "", r.ret)>>
           /\ hba' = [hba EXCEPT !.vreg_info = r.info]
           /\ acquired' = acquired \o r.res
           /\ oom' = OomAfter(f)
           /\ err' = r.ret
           /\ pc' = IF r.ret # 0 THEN "dealloc_host" ELSE "parse_reset_info"
    /\ UNCHANGED <<desc, host, mmio, drvdata, pm_enabled, returned>>

ParseResetInfo ==
    /\ pc = "parse_reset_info"
    /\ \E res \in ResetResults :
        LET r == ufshcd_parse_reset_info(hba, res)
        IN /\ calls' = calls \o <<Call("devm_reset_control_get", "core_reset", res),
                                   Call("ufshcd_parse_reset_info", "", r.ret)>>
           /\ hba' = r.hba
           /\ acquired' = acquired \o (IF res = 0 THEN <<"core_reset">> ELSE <<>>)
           /\ err' = r.ret
           /\ pc' = IF r.ret # 0 THEN "dealloc_host" ELSE "parse_pinctrl_info"
    /\ UNCHANGED <<desc, host, mmio, oom, drvdata, pm_enabled, returned>>

\* a pinctrl error failing the probe
ParsePinctrlInfoFatal ==
    /\ pc = "parse_pinctrl_info"
    /\ \E res \in PinctrlResults :
        LET r == ufshcd_parse_pinctrl_info(hba, res)
        IN /\ calls' = calls \o <<Call("devm_pinctrl_get", "", res),
                                   Call("ufshcd_parse_pinctrl_info", "", r.ret)>>
           /\ hba' = r.hba
           /\ acquired' = acquired \o (IF res = 0 THEN <<"pinctrl">> ELSE <<>>)
           /\ err' = r.ret
           /\ pc' = IF r.ret # 0 THEN "dealloc_host" ELSE "parse_dev_ref_clk_freq"
    /\ UNCHANGED <<desc, host, mmio, oom, drvdata, pm_enabled, returned>>

ParsePinctrlInfo ==
    /\ pc = "parse_pinctrl_info"
    /\ \E res \in PinctrlResults :
        LET r == ufshcd_parse_pinctrl_info(hba, res)
        IN /\ calls' = calls \o <<Call("devm_pinctrl_get", "", res),
                                   Call("ufshcd_parse_pinctrl_info", "", r.ret)>>
           /\ hba' = r.hba
           /\ acquired' = acquired \o (IF res = 0 THEN <<"pinctrl">> ELSE <<>>)
           /\ err' = r.ret
           /\ pc' = "parse_dev_ref_clk_freq"
    /\ UNCHANGED <<desc, host, mmio, oom, drvdata, pm_enabled, returned>>

\* a parser that returns nothing and cannot fail
ScalarStep(at, fn, h, next) ==
    /\ pc = at
    /\ calls' = Append(calls, Call(fn, "", 0))
    /\ hba' = h
    /\ pc' = next
    /\ UNCHANGED <<desc, host, mmio, err, acquired, oom, drvdata, pm_enabled,
                   returned>>

ParseDevRefClkFreq ==
    ScalarStep("parse_dev_ref_clk_freq", "ufshcd_parse_dev_ref_clk_freq",
               ufshcd_parse_dev_ref_clk_freq(desc, hba), "parse_pm_levels")

ParsePmLevels ==
    ScalarStep("parse_pm_levels", "ufshcd_parse_pm_levels",
               ufshcd_parse_pm_levels(desc, hba), "parse_gear_limits")

ParseGearLimits ==
    ScalarStep("parse_gear_limits", "ufshcd_parse_gear_limits",
               ufshcd_parse_gear_limits(desc, hba), "parse_cmd_timeout")

ParseCmdTimeout ==
    ScalarStep("parse_cmd_timeout", "ufshcd_parse_cmd_timeout",
               ufshcd_parse_cmd_timeout(desc, hba), "parse_force_g4_flag")

ParseForceG4Flag ==
    ScalarStep("parse_force_g4_flag", "ufshcd_parse_force_g4_flag",
               ufshcd_parse_force_g4_flag(desc, hba), "parse_extcon_info")

\* the result of the extcon parser ignored
ParseExtconInfoIgnored ==
    /\ pc = "parse_extcon_info"
    /\ \E res \in ExtconResults :
        LET r == ufshcd_parse_extcon_info(hba, res)
        IN /\ calls' = calls \o <<Call("extcon_get_edev_by_phandle", "", res),
                                   Call("ufshcd_parse_extcon_info", "", r.ret)>>
           /\ hba' = r.hba
           /\ acquired' = acquired \o (IF res = 0 THEN <<"extcon">> ELSE <<>>)
           /\ err' = r.ret
           /\ pc' = "init_lanes_per_dir"
    /\ UNCHANGED <<desc, host, mmio, oom, drvdata, pm_enabled, returned>>

ParseExtconInfo ==
    /\ pc = "parse_extcon_info"
    /\ \E res \in ExtconResults :
        LET r == ufshcd_parse_extcon_info(hba, res)
        IN /\ calls' = calls \o <<Call("extcon_get_edev_by_phandle", "", res),
                                   Call("ufshcd_parse_extcon_info", "", r.ret)>>
           /\ hba' = r.hba
           /\ acquired' = acquired \o (IF res = 0 THEN <<"extcon">> ELSE <<>>)
           /\ err' = r.ret
           /\ pc' = IF r.ret # 0 THEN "dealloc_host" ELSE "init_lanes_per_dir"
    /\ UNCHANGED <<desc, host, mmio, oom, drvdata, pm_enabled, returned>>

InitLanesPerDir ==
    ScalarStep("init_lanes_per_dir", "ufshcd_init_lanes_per_dir",
               ufshcd_init_lanes_per_dir(desc, hba), "ufshcd_init")

\* the result of ufshcd_init ignored
UfshcdInitIgnored ==
    /\ pc = "ufshcd_init"
    /\ \E r \in InitResults :
        /\ calls' = Append(calls, Call("ufshcd_init", "", r))
        /\ err' = r
        /\ pc' = "set_drvdata"
    /\ UNCHANGED <<desc, hba, host, mmio, acquired, oom, drvdata, pm_enabled,
                   returned>>

UfshcdInit ==
    /\ pc = "ufshcd_init"
    /\ \E r \in InitResults :
        /\ calls' = Append(calls, Call("ufshcd_init", "", r))
        /\ err' = r
        /\ pc' = IF r # 0 THEN "dealloc_host" ELSE "set_drvdata"
    /\ UNCHANGED <<desc, hba, host, mmio, acquired, oom, drvdata, pm_enabled,
                   returned>>

\* platform_set_drvdata, pm_runtime_set_active, pm_runtime_enable, return 0
Attach ==
    /\ pc = "set_drvdata"
    /\ calls' = calls \o <<Call("platform_set_drvdata", "", 0),
                           Call("pm_runtime_set_active", "", 0),
                           Call("pm_runtime_enable", "", 0)>>
    /\ drvdata' = TRUE
    /\ pm_enabled' = TRUE
    /\ returned' = <<0>>
    /\ pc' = "done"
    /\ UNCHANGED <<desc, hba, host, mmio, err, acquired, oom>>

\* ufshcd_dealloc_host(hba): the adapter is released together with every
\* resource acquired for it
ufshcd_dealloc_host(held) == <<>>

\* the label dealloc_host
DeallocHost ==
    /\ pc = "dealloc_host"
    /\ calls' = Append(calls, Call("ufshcd_dealloc_host", "", 0))
    /\ host' = "deallocated"
    /\ acquired' = ufshcd_dealloc_host(acquired)
    /\ pc' = "out"
    /\ UNCHANGED <<desc, hba, mmio, err, oom, drvdata, pm_enabled, returned>>

\* the label out: return err
ReturnErr ==
    /\ pc = "out"
    /\ returned' = <<err>>
    /\ pc' = "done"
    /\ UNCHANGED <<desc, hba, host, mmio, err, calls, acquired, oom, drvdata,
                   pm_enabled>>

Next ==
    \/ MapResource
    \/ GetIrq
    \/ AllocHost
    \/ ParseClockInfo
    \/ ParseRegulatorInfo
    \/ ParseResetInfo
    \/ ParsePinctrlInfo
    \/ ParseDevRefClkFreq
    \/ ParsePmLevels
    \/ ParseGearLimits
    \/ ParseCmdTimeout
    \/ ParseForceG4Flag
    \/ ParseExtconInfo
    \/ InitLanesPerDir
    \/ UfshcdInit
    \/ Attach
    \/ DeallocHost
    \/ ReturnErr

Spec == Init /\ [][Next]_vars

---------------------------------------------------------------------------
(* The parsers on their own: the probe has reached the parser with nothing *)
(* acquired before it                                                      *)

BeforeClockParse ==
    <<Call("devm_ioremap_resource", "", 0), Call("platform_get_irq", "", 37),
      Call("ufshcd_alloc_host", "", 0)>>

AtClockParse(d) ==
    /\ desc = d
    /\ pc = "parse_clock_info"
    /\ hba = [ufshcd_alloc_host EXCEPT !.var = "var"]
    /\ host = "allocated"
    /\ mmio = "mapped"
    /\ err = 0
    /\ calls = BeforeClockParse
    /\ acquired = <<>>
    /\ oom = 0
    /\ drvdata = FALSE
    /\ pm_enabled = FALSE
    /\ returned = <<>>

InitClock == \E d \in ClockDescs : AtClockParse(d)

NextClock == ParseClockInfo \/ DeallocHost \/ ReturnErr

SpecClock == InitClock /\ [][NextClock]_vars

AtRegulatorParse(d) ==
    /\ desc = d
    /\ pc = "parse_regulator_info"
    /\ hba = [ufshcd_alloc_host EXCEPT !.var = "var"]
    /\ host = "allocated"
    /\ mmio = "mapped"
    /\ err = 0
    /\ calls = Append(BeforeClockParse, Call("ufshcd_parse_clock_info", "", 0))
    /\ acquired = <<>>
    /\ oom = 0
    /\ drvdata = FALSE
    /\ pm_enabled = FALSE
    /\ returned = <<>>

InitVreg ==
    \/ AtRegulatorParse(NoNode)
    \/ \E focus \in RoleSet : \E d \in FocusDescs(focus) : AtRegulatorParse(d)

NextVreg == ParseRegulatorInfo \/ DeallocHost \/ ReturnErr

SpecVreg == InitVreg /\ [][NextVreg]_vars

---------------------------------------------------------------------------
(* Reading the call log *)

Calls(fn) == {i \in DOMAIN calls : calls[i].fn = fn}
Called(fn) == Calls(fn) # {}
First(fn) == CHOOSE i \in Calls(fn) : \A j \in Calls(fn) : i <= j
RetOf(fn) == calls[First(fn)].ret
\* platform_get_irq succeeds with any irq number >= 0, the others with 0
Succeeded(fn) ==
    Called(fn) /\ (IF fn = "platform_get_irq" THEN RetOf(fn) >= 0 ELSE RetOf(fn) = 0)
Failed(fn) == Called(fn) /\ ~Succeeded(fn)
CalledBefore(a, b) == Called(a) /\ Called(b) /\ First(a) < First(b)

\* the calls of ufshcd_populate_vreg for one role
PopCalls(role) ==
    {i \in DOMAIN calls : calls[i].fn = "ufshcd_populate_vreg" /\ calls[i].arg = role}
PopCalled(role) == PopCalls(role) # {}
PopRet(role) == calls[CHOOSE i \in PopCalls(role) : TRUE].ret

Returned == returned # <<>>
RetVal == returned[1]
Deallocs == Cardinality(Calls("ufshcd_dealloc_host"))
Aborting == pc \in {"dealloc_host", "out", "done"}

\* the stages the probe cannot go on without, as the specification lists them
MandatoryStages ==
    {"devm_ioremap_resource", "platform_get_irq", "ufshcd_alloc_host",
     "ufshcd_parse_clock_info", "ufshcd_parse_regulator_info",
     "ufshcd_parse_extcon_info"}
MandatoryAfterAlloc ==
    {"ufshcd_parse_clock_info", "ufshcd_parse_regulator_info",
     "ufshcd_parse_extcon_info"}
ScalarStages ==
    {"ufshcd_parse_dev_ref_clk_freq", "ufshcd_parse_pm_levels",
     "ufshcd_parse_gear_limits", "ufshcd_parse_cmd_timeout",
     "ufshcd_parse_force_g4_flag", "ufshcd_init_lanes_per_dir"}
HandleStages ==
    {"ufshcd_parse_reset_info", "ufshcd_parse_pinctrl_info",
     "ufshcd_parse_extcon_info"}

---------------------------------------------------------------------------
(* C1 *)

\* C1: ufshcd_init is called only after every mandatory stage (memory and
\* IRQ lookup, adapter allocation, clock parse, regulator parse, extcon
\* parse) has returned success; when a mandatory stage after the allocation
\* fails, the adapter is passed to ufshcd_dealloc_host exactly once and
\* never to ufshcd_init.
C1_InitOnlyAfterMandatory ==
    /\ Called("ufshcd_init") =>
          \A s \in MandatoryStages :
              Succeeded(s) /\ CalledBefore(s, "ufshcd_init")
    /\ Deallocs <= 1
    /\ \A s \in MandatoryAfterAlloc :
          Failed(s) =>
              /\ ~Called("ufshcd_init")
              /\ Aborting
              /\ pc = "dealloc_host" => Deallocs = 0
              /\ pc \in {"out", "done"} => Deallocs = 1 /\ host = "deallocated"

\* the extcon parser, the last mandatory stage, failed and the probe returned
C1_Witness ==
    Returned /\ Failed("ufshcd_parse_extcon_info") /\ Deallocs = 1

---------------------------------------------------------------------------
(* C2 *)

\* C2: the adapter is published as driver data and runtime PM is enabled if
\* and only if ufshcd_pltfrm_init returns 0; an aborted probe returns a
\* negative status and does neither; on success both happen after
\* ufshcd_init has succeeded.
C2_PublishIffSuccess ==
    /\ drvdata <=> Called("platform_set_drvdata")
    /\ pm_enabled <=> Called("pm_runtime_enable")
    /\ (drvdata \/ pm_enabled) =>
          /\ Returned /\ RetVal = 0
          /\ Succeeded("ufshcd_init")
          /\ CalledBefore("ufshcd_init", "platform_set_drvdata")
          /\ CalledBefore("ufshcd_init", "pm_runtime_enable")
    /\ Returned =>
          /\ RetVal = 0 <=> (drvdata /\ pm_enabled)
          /\ RetVal # 0 => RetVal < 0 /\ ~drvdata /\ ~pm_enabled
    /\ \A s \in MandatoryStages \cup {"ufshcd_init"} :
          (Returned /\ Failed(s)) => RetVal < 0 /\ ~drvdata /\ ~pm_enabled

\* a probe that succeeded
C2_Witness == Returned /\ RetVal = 0 /\ drvdata /\ pm_enabled

---------------------------------------------------------------------------
(* C3 *)

\* no stage other than the reset and pinctrl lookups has failed
OtherStagesSucceeded ==
    \A s \in MandatoryStages \cup {"ufshcd_init"} : ~Failed(s)

\* C3 as claimed: a failure to resolve "core_reset" sets core_reset to none
\* and does not abort the probe; when all other stages succeed the probe
\* goes on to the pinctrl stage and ufshcd_init and returns 0 whether or not
\* the reset line resolved.
C3_ResetFailureTolerated ==
    /\ Failed("devm_reset_control_get") => hba.core_reset = NULLP
    /\ (Returned /\ OtherStagesSucceeded) =>
          /\ RetVal = 0
          /\ Called("ufshcd_parse_pinctrl_info")
          /\ Called("ufshcd_init")

\* C3 amended: a failure to resolve "core_reset" sets core_reset to none and
\* aborts the probe: ufshcd_parse_reset_info returns the error, neither the
\* pinctrl stage nor ufshcd_init runs, the adapter is deallocated once and
\* ufshcd_pltfrm_init returns that error.  When the reset line resolves and
\* all other stages succeed the probe runs the pinctrl stage and
\* ufshcd_init and returns 0.
C3_ResetFailureAborts ==
    /\ Failed("devm_reset_control_get") =>
          /\ hba.core_reset = NULLP
          /\ RetOf("ufshcd_parse_reset_info") = RetOf("devm_reset_control_get")
          /\ ~Called("ufshcd_parse_pinctrl_info")
          /\ ~Called("ufshcd_init")
          /\ Aborting
          /\ Returned =>
                /\ RetVal = RetOf("devm_reset_control_get")
                /\ Deallocs = 1
                /\ ~drvdata
    /\ Succeeded("devm_reset_control_get") =>
          /\ hba.core_reset = Ptr("core_reset")
          /\ Succeeded("ufshcd_parse_reset_info")
    /\ (Returned /\ OtherStagesSucceeded /\ Succeeded("ufshcd_parse_reset_info")) =>
          /\ RetVal = 0
          /\ Called("ufshcd_parse_pinctrl_info")
          /\ Called("ufshcd_init")

\* the reset line did not resolve and the probe returned
C3_Witness ==
    Returned /\ Failed("devm_reset_control_get") /\ Failed("ufshcd_parse_reset_info")

---------------------------------------------------------------------------
(* C4 *)

\* the role's supply is described and its "<role>-max-microamp" is not
SupplyWithoutMax(role) ==
    desc.present /\ desc.vreg[role].supply /\ ~desc.vreg[role].max_microamp.present

RegulatorStageFailed ==
    /\ Failed("ufshcd_parse_regulator_info")
    /\ Aborting
    /\ Returned => RetVal < 0 /\ Deallocs = 1

\* C4 as claimed: for each regulator role, when "<role>-supply" is present
\* and "<role>-max-microamp" is absent, ufshcd_populate_vreg fails, no
\* descriptor is stored for the role and the probe aborts.
C4_MissingMaxIsFatal ==
    Called("ufshcd_parse_regulator_info") =>
        \A role \in RoleSet :
            SupplyWithoutMax(role) =>
                /\ PopCalled(role) => PopRet(role) # 0
                /\ hba.vreg_info[role] = NULLP
                /\ RegulatorStageFailed

\* C4 amended: for each regulator role, when "<role>-supply" is present,
\* "<role>-fixed-regulator" is not set and "<role>-max-microamp" is absent,
\* ufshcd_populate_vreg fails, no descriptor is stored for the role and the
\* probe aborts.  With "<role>-fixed-regulator" set the max-microamp
\* property is not read: the call succeeds unless the allocation fails and
\* stores a descriptor with a zero current limit.
C4_MissingMaxIsFatalUnlessFixed ==
    Called("ufshcd_parse_regulator_info") =>
        \A role \in RoleSet :
            SupplyWithoutMax(role) =>
                IF ~desc.vreg[role].fixed_regulator.present
                THEN /\ PopCalled(role) => PopRet(role) # 0
                     /\ hba.vreg_info[role] = NULLP
                     /\ RegulatorStageFailed
                ELSE PopCalled(role) =>
                        /\ PopRet(role) \in {0, -ENOMEM}
                        /\ PopRet(role) = 0 =>
                              /\ hba.vreg_info[role] # NULLP
                              /\ hba.vreg_info[role][1].max_uA = 0

\* the last role has a supply and no max-microamp, its parse failed for that
\* reason and the probe returned
C4_Witness ==
    /\ Returned
    /\ SupplyWithoutMax("vccq2")
    /\ ~desc.vreg["vccq2"].fixed_regulator.present
    /\ PopCalled("vccq2") /\ PopRet("vccq2") = -EINVAL

---------------------------------------------------------------------------
(* C5 *)

---------------------------------------------------------------------------
(* C6 *)

ClockCount == Len(desc.clock_names.strs)
NamedClocks == desc.present /\ desc.clock_names.state = "ok" /\ ClockCount >= 1
FreqCells == Len(desc.freq_table.cells)

\* C6 as claimed: with at least one clock name, a "freq-table-hz" whose
\* length is not twice the number of names, an empty table included, makes
\* ufshcd_parse_clock_info fail with -EINVAL and add no clock descriptor.
C6_LengthMismatchFails ==
    (/\ Called("ufshcd_parse_clock_info")
     /\ NamedClocks
     /\ desc.freq_table.present
     /\ FreqCells # 2 * ClockCount) =>
        /\ RetOf("ufshcd_parse_clock_info") = -EINVAL
        /\ hba.clk_list_head = <<>>

\* C6 amended: with at least one clock name, a non-empty "freq-table-hz"
\* (length > 0 bytes) whose number of 32-bit cells is not twice the number
\* of names makes ufshcd_parse_clock_info fail with -EINVAL and add no clock
\* descriptor; an empty table is treated like a missing one: the parser
\* returns 0 and adds no clock descriptor.
C6_NonEmptyMismatchFails ==
    (/\ Called("ufshcd_parse_clock_info")
     /\ NamedClocks
     /\ desc.freq_table.present
     /\ FreqCells # 2 * ClockCount) =>
        /\ hba.clk_list_head = <<>>
        /\ RetOf("ufshcd_parse_clock_info") =
              (IF desc.freq_table.len > 0 THEN -EINVAL ELSE 0)

\* a table longer than twice the number of names was rejected
C6_Witness ==
    /\ Called("ufshcd_parse_clock_info")
    /\ NamedClocks
    /\ FreqCells > 2 * ClockCount
    /\ RetOf("ufshcd_parse_clock_info") = -EINVAL

---------------------------------------------------------------------------
(* C7 *)

WellFormedClocks ==
    NamedClocks /\ desc.freq_table.present /\ FreqCells = 2 * ClockCount

\* the i-th clock of the description
DeclaredClock(i) ==
    [name |-> desc.clock_names.strs[i],
     min_freq |-> desc.freq_table.cells[2 * i - 1],
     max_freq |-> desc.freq_table.cells[2 * i]]

ClocksAsDeclared ==
    /\ RetOf("ufshcd_parse_clock_info") = 0
    /\ Len(hba.clk_list_head) = ClockCount
    /\ \A i \in 1..ClockCount : hba.clk_list_head[i] = DeclaredClock(i)

---------------------------------------------------------------------------
(* C8 *)

ExtconLookup == RetOf("extcon_get_edev_by_phandle")
GoesOnToInit == pc \in {"init_lanes_per_dir", "ufshcd_init"} \/ Called("ufshcd_init")

\* C8: the extcon lookup is fatal exactly when it fails with an error other
\* than -ENODEV.  On -ENODEV the parser returns 0, the handle stays absent
\* and the probe goes on to ufshcd_init; on success the handle is stored;
\* on any other error ufshcd_pltfrm_init returns that error, the adapter is
\* deallocated and ufshcd_init is not called.
C8_ExtconFatalUnlessAbsent ==
    Called("extcon_get_edev_by_phandle") =>
        IF ExtconLookup = -ENODEV
        THEN /\ RetOf("ufshcd_parse_extcon_info") = 0
             /\ hba.extcon = NULLP
             /\ GoesOnToInit
        ELSE IF ExtconLookup = 0
        THEN /\ RetOf("ufshcd_parse_extcon_info") = 0
             /\ hba.extcon = Ptr("extcon")
             /\ GoesOnToInit
        ELSE /\ RetOf("ufshcd_parse_extcon_info") = ExtconLookup
             /\ ~Called("ufshcd_init")
             /\ Aborting
             /\ pc \in {"out", "done"} => Deallocs = 1 /\ host = "deallocated"
             /\ Returned => RetVal = ExtconLookup

\* a probe without an external connector succeeded
C8_Witness ==
    /\ Returned /\ RetVal = 0
    /\ Called("extcon_get_edev_by_phandle") /\ ExtconLookup = -ENODEV

---------------------------------------------------------------------------
(* C9 *)

VccDescribed ==
    /\ desc.present
    /\ desc.vreg["vcc"].supply
    /\ desc.vreg["vcc"].max_microamp.present

WellFormedLevel(p) == p.present /\ p.len = 2 * SizeofU32 /\ Len(p.cells) = 2

\* the range the priority order gives: 1.8V mode, explicit level, default
VccRangeByPriority ==
    IF desc.vcc_supply_1p8.present
    THEN <<UFS_VREG_VCC_1P8_MIN_UV, UFS_VREG_VCC_1P8_MAX_UV>>
    ELSE IF WellFormedLevel(desc.vcc_voltage_level)
    THEN <<desc.vcc_voltage_level.cells[1], desc.vcc_voltage_level.cells[2]>>
    ELSE <<UFS_VREG_VCC_MIN_UV, UFS_VREG_VCC_MAX_UV>>

VccRange == <<hba.vreg_info["vcc"][1].min_uV, hba.vreg_info["vcc"][1].max_uV>>

\* C9 as claimed: for "vcc" with supply and max-microamp present the parse
\* never fails and the voltage range follows the priority order: the fixed
\* 1.8V range when vcc-supply-1p8 is set, else the two values of a
\* well-formed vcc-voltage-level, else the default vcc range.
C9_VccRangePriority ==
    (PopCalled("vcc") /\ VccDescribed) =>
        /\ PopRet("vcc") = 0
        /\ hba.vreg_info["vcc"] # NULLP
        /\ VccRange = VccRangeByPriority

\* C9 amended: for "vcc" with supply and max-microamp present the parse
\* fails only with -ENOMEM, when the descriptor cannot be allocated; when it
\* succeeds and vcc-fixed-regulator is not set, the voltage range follows
\* the priority order above; with vcc-fixed-regulator set no range is
\* assigned (both bounds stay 0).
C9_VccRangePriorityUnlessFixed ==
    (PopCalled("vcc") /\ VccDescribed) =>
        /\ PopRet("vcc") \in {0, -ENOMEM}
        /\ PopRet("vcc") = -ENOMEM => oom > 0
        /\ PopRet("vcc") = 0 =>
              /\ hba.vreg_info["vcc"] # NULLP
              /\ VccRange = (IF desc.vreg["vcc"].fixed_regulator.present
                             THEN <<0, 0>> ELSE VccRangeByPriority)

\* the 1.8V mode won over a well-formed explicit level
C9_Witness ==
    /\ PopCalled("vcc") /\ VccDescribed /\ PopRet("vcc") = 0
    /\ ~desc.vreg["vcc"].fixed_regulator.present
    /\ desc.vcc_supply_1p8.present
    /\ WellFormedLevel(desc.vcc_voltage_level)
    /\ VccRange = <<UFS_VREG_VCC_1P8_MIN_UV, UFS_VREG_VCC_1P8_MAX_UV>>

---------------------------------------------------------------------------
(* C10 *)

ParserStages ==
    {"ufshcd_parse_clock_info", "ufshcd_parse_regulator_info"}
        \cup HandleStages \cup ScalarStages

\* b is called only after a has returned
Precedes(a, b) == Called(b) => CalledBefore(a, b)

\* C10: every stage runs at most once per probe; the clock parse completes
\* before the regulator parse, both before the reset, pinctrl and extcon
\* stages and before every scalar parser, and all of them before
\* ufshcd_init; a pinctrl failure alone never keeps a later stage from
\* running.
C10_StageOrder ==
    /\ \A s \in ParserStages \cup MandatoryStages \cup {"ufshcd_init"} :
          Cardinality(Calls(s)) <= 1
    /\ Precedes("ufshcd_parse_clock_info", "ufshcd_parse_regulator_info")
    /\ \A s \in HandleStages \cup ScalarStages :
          /\ Precedes("ufshcd_parse_clock_info", s)
          /\ Precedes("ufshcd_parse_regulator_info", s)
    /\ \A s \in ParserStages : Precedes(s, "ufshcd_init")
    /\ (Returned /\ Called("ufshcd_parse_pinctrl_info")) =>
          /\ \A s \in ScalarStages \ {"ufshcd_init_lanes_per_dir"} : Called(s)
          /\ Called("ufshcd_parse_extcon_info")
          /\ Succeeded("ufshcd_parse_extcon_info") =>
                Called("ufshcd_init_lanes_per_dir") /\ Called("ufshcd_init")

\* the pinctrl lookup failed and the probe succeeded all the same
C10_Witness ==
    Returned /\ RetVal = 0 /\ Failed("ufshcd_parse_pinctrl_info")

====
